---- MODULE Spec2Model ----
(***************************************************************************)
(* cargo-scan: the import-path parser (parse_use / parse_use_core), the    *)
(* pattern matcher (is_of_interest), scan_use, the walk of a crate's src   *)
(* tree (scan_crate), the CSV record of an Effect (to_csv), the call-trace *)
(* backend (parse_mirai_call_line, scan_crate_mirai), the statement        *)
(* scanner (scan_rs), the scan loop with its summaries and its report, and *)
(* the call-graph viewer, modelled from src/scan.py, src/scripts/scan.py   *)
(* and src/scripts/view_callgraph.py.                                      *)
(*                                                                         *)
(* A Python string is a sequence of one-character strings.                 *)
(***************************************************************************)
EXTENDS Integers, Sequences, FiniteSets, TLC

VARIABLES
    pc,        \* position of the modelled run
    expr,      \* the argument of parse_use / scan_use
    tree,      \* the group tree expr was rendered from (NoTree for a raw string)
    ret,       \* what parse_use returned: [result, warn, raised]
    of_interest,  \* scan_use: the active pattern list
    uses,      \* scan_use: the list `for use in parse_use(use_expr)` runs over
    upos,      \* scan_use: how many elements of uses the loop has taken
    found,     \* scan_use: [pat, nwarn] of the last is_of_interest call
    emitted,   \* scan_use: the Effects yielded so far
    script,    \* which script runs: "scan.py", "scripts/scan.py" or "view_callgraph.py"
    mirai,     \* args.mirai (scan.py)
    test_run,  \* args.test_run
    prefix,    \* args.output_prefix is not None
    crates,    \* the list of crates to scan
    ci,        \* the scan loop is at crates[ci]; 0 before the first crate
    have_dir,  \* the crates whose target directory exists
    nstmt,     \* statements (tool lines) of crates[ci] scanned so far
    pending,   \* Effects the running scan_fun generator has yet to yield
    crate_summary,
    pattern_summary,
    results,
    summary,   \* the summary report the run has made
    log,       \* what was logged at level error
    out,       \* what the run has output (logged at info or written to a file)
    fetched,   \* the crates cargo download was invoked for
    tool_failed,  \* the crates whose external tool exited with a non-zero status
    fs,        \* scan_crate: what each directory of the crate's src tree holds
    todo,      \* scan_crate: the directories os.walk has yet to list
    eff,       \* to_csv: the Effect being serialized
    csv,       \* to_csv: the record it returned
    lines,     \* scan_crate_mirai: the lines `cargo mirai` prints
    lpos,      \* scan_crate_mirai: how many of them have been read
    call_path_counter,
    edge1,     \* scan_crate_mirai: fun1, src_dir1, path1
    edge2,     \* scan_crate_mirai: fun2, src_dir2, path2
    pairs,     \* scan_crate_mirai: the "MIRAI effect found" entries logged
    fh,        \* scan_rs: the lines of the file, as iterating the handle gives them
    fpos,      \* scan_rs: how many of them have been read
    curr,      \* scan_rs: the text accumulated since the last yield
    yielded,   \* scan_rs: the strings yielded so far
    verbose,   \* main: args.verbose, the number of -v flags
    log_level, \* main: the level handed to logging.basicConfig
    proc,      \* view_callgraph: the process run_mirai started with Popen
    rendered   \* view_callgraph: the state of proc at each start of dot

parseVars == <<expr, tree, ret>>
useVars == <<of_interest, uses, upos, found, emitted>>
argVars == <<script, mirai, test_run, prefix, crates>>
loopVars == <<ci, have_dir, nstmt, pending, fetched, tool_failed>>
sumVars == <<crate_summary, pattern_summary, results, summary>>
walkVars == <<fs, todo>>
csvVars == <<eff, csv>>
miraiVars == <<lines, lpos, call_path_counter, edge1, edge2, pairs>>
rsVars == <<fh, fpos, curr, yielded>>
mainVars == <<verbose, log_level, proc, rendered>>
auxVars == <<walkVars, csvVars, miraiVars, rsVars, mainVars>>
vars == <<pc, parseVars, useVars, argVars, auxVars, loopVars, sumVars, log, out>>

----------------------------------------------------------------------------
(* Bounds *)

\* longest raw body (over BodyChars) put between a prefix and a suffix
MaxBody == 4
\* most segments (nodes) of a rendered group tree
MaxNodes == 5
\* most segments of a declaration handed to scan_use
ScanNodes == 3
\* longest pattern list handed to is_of_interest
MaxPats == 3
\* longest list of crates
MaxCrates == 2
\* most statements (lines of tool output) scanned per crate
MaxStmts == 1
\* largest count in a summary handed to make_summary
MaxCount == 2
\* most lines of tool output handed to scan_crate_mirai
MaxLines == 4
\* most segments of a declaration compared with its other formattings
FormatNodes == 4
\* most lines of a file handed to scan_rs
MaxRsLines == 3
\* largest number of -v flags given to a script
MaxVerbose == 7

----------------------------------------------------------------------------
(* Strings *)

Range(s) == {s[i] : i \in DOMAIN s}

\* code points of the characters the model uses (Python compares str by code point)
Ord(c) ==
    CASE c = "\t" -> 9  [] c = "\n" -> 10 [] c = " " -> 32 [] c = "," -> 44
      [] c = "." -> 46  [] c = "/" -> 47  [] c = ":" -> 58 [] c = ";" -> 59
      [] c = "a" -> 97  [] c = "b" -> 98  [] c = "c" -> 99 [] c = "d" -> 100
      [] c = "e" -> 101 [] c = "m" -> 109 [] c = "r" -> 114 [] c = "s" -> 115
      [] c = "u" -> 117 [] c = "{" -> 123 [] c = "}" -> 125

\* str.__lt__ : lexicographic by code point, a proper prefix is smaller
RECURSIVE StrLess(_, _)
StrLess(s, t) ==
    IF t = <<>> THEN FALSE
    ELSE IF s = <<>> THEN TRUE
    ELSE IF Head(s) = Head(t) THEN StrLess(Tail(s), Tail(t))
    ELSE Ord(Head(s)) < Ord(Head(t))

\* the characters str.strip() removes (of those the model uses)
IsSpace(c) == c \in {" ", "\t", "\n"}

RECURSIVE LStrip(_)
LStrip(s) == IF s # <<>> /\ IsSpace(Head(s)) THEN LStrip(Tail(s)) ELSE s

RECURSIVE RStrip(_)
RStrip(s) ==
    IF s # <<>> /\ IsSpace(s[Len(s)]) THEN RStrip(SubSeq(s, 1, Len(s) - 1)) ELSE s

\* str.strip()
Strip(s) == RStrip(LStrip(s))

\* str.replace(c, '') for a one-character c
RECURSIVE RemoveChar(_, _)
RemoveChar(s, c) ==
    IF s = <<>> THEN <<>>
    ELSE IF Head(s) = c THEN RemoveChar(Tail(s), c)
    ELSE <<Head(s)>> \o RemoveChar(Tail(s), c)

\* c in s
HasChar(s, c) == \E i \in DOMAIN s : s[i] = c

\* sorted(list): insertion into a sorted list, after the equal elements (stable)
RECURSIVE InsertSorted(_, _)
InsertSorted(x, s) ==
    IF s = <<>> THEN <<x>>
    ELSE IF StrLess(x, Head(s)) THEN <<x>> \o s
    ELSE <<Head(s)>> \o InsertSorted(x, Tail(s))

RECURSIVE Sorted(_)
Sorted(s) ==
    IF s = <<>> THEN <<>>
    ELSE InsertSorted(s[Len(s)], Sorted(SubSeq(s, 1, Len(s) - 1)))

----------------------------------------------------------------------------
(* parse_use_core: the generator, run to exhaustion by list() *)

CoreInit == [stack |-> <<>>, cur |-> <<>>, pending |-> <<>>,
             out |-> <<>>, warn |-> <<>>, halted |-> FALSE]

Commit_noStrip(st) == [st EXCEPT !.cur = st.cur \o st.pending, !.pending = <<>>]

\* if ch in '{,}': cur, pending = cur + pending.strip(), ""
Commit(st) == [st EXCEPT !.cur = st.cur \o Strip(st.pending), !.pending = <<>>]

\* ch == '{': stack.append(cur)
OnOpen(st) == [st EXCEPT !.stack = Append(st.stack, st.cur)]

OnComma_skipEmpty(st) ==
    IF st.stack = <<>>
    THEN [st EXCEPT !.warn = Append(st.warn, "unexpected ,"), !.halted = TRUE]
    ELSE [st EXCEPT !.out = IF st.cur = st.stack[Len(st.stack)] THEN st.out
                             ELSE Append(st.out, st.cur),
                    !.cur = st.stack[Len(st.stack)]]

OnComma_literal(st) == [st EXCEPT !.pending = Append(st.pending, ",")]

OnComma_keepCur(st) ==
    IF st.stack = <<>>
    THEN [st EXCEPT !.warn = Append(st.warn, "unexpected ,"), !.halted = TRUE]
    ELSE [st EXCEPT !.out = Append(st.out, st.cur)]

\* ch == ',': warn and return on an empty stack, else yield cur; cur = stack[-1]
OnComma(st) ==
    IF st.stack = <<>>
    THEN [st EXCEPT !.warn = Append(st.warn, "unexpected ,"), !.halted = TRUE]
    ELSE [st EXCEPT !.out = Append(st.out, st.cur),
                    !.cur = st.stack[Len(st.stack)]]

OnClose_lenient(st) ==
    IF st.stack = <<>> THEN st
    ELSE [st EXCEPT !.stack = SubSeq(st.stack, 1, Len(st.stack) - 1)]

\* ch == '}': warn and return on an empty stack, else stack.pop()
OnClose(st) ==
    IF st.stack = <<>>
    THEN [st EXCEPT !.warn = Append(st.warn, "unexpected }"), !.halted = TRUE]
    ELSE [st EXCEPT !.stack = SubSeq(st.stack, 1, Len(st.stack) - 1)]

\* else: pending += ch
OnOther(st, ch) == [st EXCEPT !.pending = Append(st.pending, ch)]

\* one iteration of `for ch in expr`
CoreStep(st, ch) ==
    LET c == IF ch \in {"{", ",", "}"} THEN Commit(st) ELSE st
    IN  IF ch = "{" THEN OnOpen(c)
        ELSE IF ch = "," THEN OnComma(c)
        ELSE IF ch = "}" THEN OnClose(c)
        ELSE OnOther(c, ch)

RECURSIVE CoreLoop(_, _, _)
CoreLoop(st, e, i) ==
    IF st.halted \/ i > Len(e) THEN st
    ELSE CoreLoop(CoreStep(st, e[i]), e, i + 1)

CoreFinish_noStrip(st) ==
    LET w == IF st.stack # <<>> THEN Append(st.warn, "unclosed {") ELSE st.warn
        c == st.cur \o st.pending
    IN  [st EXCEPT !.warn = w, !.cur = c, !.pending = <<>>,
                   !.out = Append(st.out, c)]

CoreFinish_dropUnclosed(st) ==
    IF st.stack # <<>> THEN [st EXCEPT !.warn = Append(st.warn, "unclosed {")]
    ELSE [st EXCEPT !.cur = st.cur \o Strip(st.pending), !.pending = <<>>,
                    !.out = Append(st.out, st.cur \o Strip(st.pending))]

\* after the loop: warn if the stack is not empty, flush pending, yield cur
CoreFinish(st) ==
    LET w == IF st.stack # <<>> THEN Append(st.warn, "unclosed {") ELSE st.warn
        c == st.cur \o Strip(st.pending)
    IN  [st EXCEPT !.warn = w, !.cur = c, !.pending = <<>>,
                   !.out = Append(st.out, c)]

parse_use_core(e) ==
    LET st == CoreLoop(CoreInit, e, 1)
    IN  IF st.halted THEN st ELSE CoreFinish(st)

----------------------------------------------------------------------------
(* parse_use *)

UseKw == <<"u", "s", "e", " ">>

Returned(result, warn) == [result |-> result, warn |-> warn, raised |-> FALSE]

\* an uncaught exception leaves parse_use: no value is returned
Raised(what) == [result |-> <<>>, warn |-> <<>>, raised |-> TRUE]

\* expr[0:4]
First4(e) == SubSeq(e, 1, IF Len(e) < 4 THEN Len(e) ELSE 4)

\* the part of parse_use after the four precondition checks
ParseBody(e) ==
    LET body == RemoveChar(SubSeq(e, 5, Len(e)), "\n")
    IN  IF body = <<>> THEN Raised("IndexError")
        ELSE IF body[Len(body)] # ";"
        THEN Returned(<<>>, <<"Expected ; at end of use expression">>)
        ELSE LET b    == SubSeq(body, 1, Len(body) - 1)
                 w    == IF HasChar(b, ";")
                         THEN <<"Unexpected extra semicolon">> ELSE <<>>
                 core == parse_use_core(b)
             IN  Returned(Sorted(core.out), w \o core.warn)

parse_use(e) ==
    IF e = <<>> THEN Raised("IndexError")
    ELSE IF e[Len(e)] # "\n"
    THEN Returned(<<>>, <<"Expected newline-terminated use expression">>)
    ELSE IF First4(e) # UseKw
    THEN Returned(<<>>, <<"Expected 'use' expression">>)
    ELSE IF ~HasChar(e, ";")
    THEN Returned(<<>>, <<"Expected semicolon">>)
    ELSE IF HasChar(e, "/")
    THEN Returned(<<>>, <<"Unexpected extra slash">>)
    ELSE ParseBody(e)

----------------------------------------------------------------------------
(* Inputs of parse_use *)

BodyChars == {"a", "b", " ", "{", ",", "}"}

RECURSIVE StringsUpTo(_, _)
StringsUpTo(chars, n) ==
    IF n = 0 THEN {<<>>}
    ELSE LET shorter == StringsUpTo(chars, n - 1)
         IN  shorter \cup {Append(s, c) : s \in shorter, c \in chars}

Prefixes == {UseKw, <<"u", "s", "e">>, <<>>}

Suffixes ==
    {<<";", "\n">>, <<";">>, <<"\n">>, <<>>, <<";", ";", "\n">>,
     <<"/", ";", "\n">>, <<"\n", ";", "\n">>, <<";", " ", "\n">>}

\* longer bodies with a `,` or a `}` after the last group was closed
StrayBodies ==
    { <<"a", "{", "b", ",", "a", "}", "}", "b">>,
      <<"a", "{", "b", ",", "a", "}", ",", "b">>,
      <<"{", "a", ",", " ", "b", "}", " ", ",", "{", "a", "}">>,
      <<"a", "{", "b", "{", "a", ",", "b", "}", ",", "a", "}", "}">> }

RawInputs ==
    {p \o b \o s : p \in Prefixes, b \in StringsUpTo(BodyChars, MaxBody),
                   s \in Suffixes}
        \cup {UseKw \o b \o <<";", "\n">> : b \in StrayBodies}

----------------------------------------------------------------------------
(* Well-formed declarations: `use ` + a rendered group tree + `;\n`.        *)
(* A tree is its nodes in the order their segments are written (preorder): *)
(* node 1 is the prefix P written before the outermost `{`, parent[i] < i  *)
(* is the group node i is an item of, seg[i] the text written for node i.  *)
(* A node with items is written seg{item,...,item}: its `}` is followed by *)
(* `,`, by `}` or by the end of the body.                                  *)

Segs == {<<"a">>, <<"b">>, <<" ", "b", " ">>, <<>>}

RECURSIVE IsAncestorOrSelf(_, _, _)
IsAncestorOrSelf(parent, a, x) ==
    x = a \/ (x > 1 /\ IsAncestorOrSelf(parent, a, parent[x]))

\* parent vectors of the trees with n nodes written in preorder: node n is an
\* item of node n - 1 or of a group still open after node n - 1
RECURSIVE Shapes(_)
Shapes(n) ==
    IF n = 1 THEN {<<0>>}
    ELSE UNION {{Append(p, a) : a \in {b \in 1..(n - 1) : IsAncestorOrSelf(p, b, n - 1)}}
                : p \in Shapes(n - 1)}

RECURSIVE SegVectors(_)
SegVectors(n) ==
    IF n = 0 THEN {<<>>}
    ELSE {Append(v, s) : v \in SegVectors(n - 1), s \in Segs}

Trees ==
    UNION {{[n |-> n, parent |-> p, seg |-> s] : p \in Shapes(n), s \in SegVectors(n)}
           : n \in 1..MaxNodes}

Kids(t, i) == {j \in 1..t.n : t.parent[j] = i}

RECURSIVE Render(_, _)
RECURSIVE RenderItems(_, _, _)
\* the items of node i from item j on, separated by commas
RenderItems(t, i, j) ==
    LET later == {k \in Kids(t, i) : k > j}
    IN  Render(t, j) \o
        (IF later = {} THEN <<>>
         ELSE <<",">> \o RenderItems(t, i, CHOOSE k \in later : \A m \in later : k <= m))

\* the text of node i: its segment, and its items in braces when it is a group
Render(t, i) ==
    LET kids == Kids(t, i)
    IN  t.seg[i] \o
        (IF kids = {} THEN (IF i = 1 THEN <<"{", "}">> ELSE <<>>)
         ELSE <<"{">> \o RenderItems(t, i, CHOOSE k \in kids : \A m \in kids : k <= m)
              \o <<"}">>)

Decl(t) == UseKw \o Render(t, 1) \o <<";", "\n">>

\* the concatenation of the trimmed segments on the path from the root to node i
RECURSIVE PathTo(_, _)
PathTo(t, i) ==
    IF i = 1 THEN Strip(t.seg[1])
    ELSE PathTo(t, t.parent[i]) \o Strip(t.seg[i])

Leaves(t) == {i \in 1..t.n : Kids(t, i) = {}}

\* the import paths a declaration names: one per root-to-leaf path
Expansion(t) == {PathTo(t, i) : i \in Leaves(t)}

NoTree == [n |-> 0, parent |-> <<>>, seg |-> <<>>]
NoRet == [result |-> <<>>, warn |-> <<>>, raised |-> FALSE]

----------------------------------------------------------------------------
(* is_of_interest *)

\* Python's None: no pattern is this sequence, every pattern is a sequence of
\* one-character strings
None == <<"None">>

\* re.search(p, line) for a pattern p without regular-expression operators, as
\* all of OF_INTEREST_STD and OF_INTEREST_OTHER are: p occurs in line
ReSearch(p, line) ==
    \E i \in 0..(Len(line) - Len(p)) : SubSeq(line, i + 1, i + Len(p)) = p

OfInterestStep_first(st, p, line) ==
    IF ReSearch(p, line)
    THEN [pat |-> IF st.pat # None THEN st.pat ELSE p,
          nwarn |-> IF st.pat # None THEN st.nwarn + 1 ELSE st.nwarn]
    ELSE st

\* one iteration of `for p in of_interest`
OfInterestStep(st, p, line) ==
    IF ReSearch(p, line)
    THEN [pat |-> p, nwarn |-> IF st.pat # None THEN st.nwarn + 1 ELSE st.nwarn]
    ELSE st

RECURSIVE OfInterestLoop(_, _, _, _)
OfInterestLoop(st, line, pats, i) ==
    IF i > Len(pats) THEN st
    ELSE OfInterestLoop(OfInterestStep(st, pats[i], line), line, pats, i + 1)

\* returns [pat: the value returned, nwarn: the warnings logged]
is_of_interest(line, pats) ==
    OfInterestLoop([pat |-> None, nwarn |-> 0], line, pats, 1)

NoFound == [pat |-> None, nwarn |-> 0]

----------------------------------------------------------------------------
(* scan_use: a generator over parse_use(use_expr) *)

Effect(crate, pattern, dir, file, fun) ==
    [crate |-> crate, pattern |-> pattern, dir |-> dir, file |-> file, fun |-> fun]

YieldsEffect_always(pat) == TRUE

\* if pat is None: skip, else: yield Effect(...)
YieldsEffect(pat) == pat # None

\* the arguments crate, root and file of the modelled call
ArgCrate == "c1"
ArgRoot == "c1/src"
ArgFile == "lib.rs"

\* for use in parse_use(use_expr): the call of parse_use
ScanUseCall ==
    /\ pc = "scan_use"
    /\ ret' = parse_use(expr)
    /\ uses' = ret'.result
    /\ upos' = 0
    /\ pc' = IF ret'.raised THEN "raised" ELSE "loop"
    /\ UNCHANGED <<expr, tree, of_interest, found, emitted>>
    /\ UNCHANGED <<argVars, auxVars, loopVars, sumVars, log, out>>

\* the body of `for use in parse_use(use_expr)`: what one path makes it yield
ScanUseYield(crate, root, file, use, pats) ==
    LET f == is_of_interest(use, pats)
    IN  IF YieldsEffect(f.pat) THEN <<Effect(crate, f.pat, root, file, use)>>
        ELSE <<>>

RECURSIVE ScanUseLoop(_, _, _, _, _, _)
ScanUseLoop(crate, root, file, us, i, pats) ==
    IF i > Len(us) THEN <<>>
    ELSE ScanUseYield(crate, root, file, us[i], pats)
            \o ScanUseLoop(crate, root, file, us, i + 1, pats)

\* everything scan_use yields for one declaration
scan_use(crate, root, file, use_expr, pats) ==
    ScanUseLoop(crate, root, file, parse_use(use_expr).result, 1, pats)

\* one iteration: is_of_interest on the next path, and the yield if it matched
ScanUseNext ==
    /\ pc = "loop"
    /\ upos < Len(uses)
    /\ upos' = upos + 1
    /\ found' = is_of_interest(uses[upos + 1], of_interest)
    /\ emitted' = emitted \o
                    ScanUseYield(ArgCrate, ArgRoot, ArgFile, uses[upos + 1], of_interest)
    /\ UNCHANGED <<pc, parseVars, of_interest, uses>>
    /\ UNCHANGED <<argVars, auxVars, loopVars, sumVars, log, out>>

\* the list is exhausted: the generator returns
ScanUseEnd ==
    /\ pc = "loop"
    /\ upos = Len(uses)
    /\ pc' = "exhausted"
    /\ UNCHANGED <<parseVars, useVars, argVars, auxVars, loopVars, sumVars, log, out>>

Patterns == {<<"a">>, <<"b">>, <<"a", "b">>}

RECURSIVE ListsUpTo(_, _)
ListsUpTo(S, n) ==
    IF n = 0 THEN {<<>>}
    ELSE LET shorter == ListsUpTo(S, n - 1)
         IN  shorter \cup {Append(l, x) : l \in shorter, x \in S}

PatternLists == ListsUpTo(Patterns, MaxPats)

\* scan_file hands scan_use the text matched by `use .*\n`
ScanUseInputs ==
    {Decl(t) : t \in {u \in Trees : u.n <= ScanNodes}}
        \cup {UseKw \o b \o <<";", "\n">> : b \in StringsUpTo(BodyChars, 2)}
        \cup {UseKw \o <<"a", "\n">>}

----------------------------------------------------------------------------
(* The summaries *)

RECURSIVE SumValues(_)
\* sum(d.values())
SumValues(d) ==
    IF DOMAIN d = {} THEN 0
    ELSE LET x == CHOOSE y \in DOMAIN d : TRUE
         IN  d[x] + SumValues([y \in DOMAIN d \ {x} |-> d[y]])

\* {c: 0 for c in crates}, {p: 0 for p in of_interest}
ZeroSummary(keys) == [x \in Range(keys) |-> 0]

BumpCrate_all(cs, c) == [x \in DOMAIN cs |-> cs[x] + 1]

\* crate_summary[crate] += 1
BumpCrate(cs, c) == [cs EXCEPT ![c] = @ + 1]

BumpPattern_seededOnly(ps, p) ==
    IF p \in DOMAIN ps THEN [ps EXCEPT ![p] = @ + 1] ELSE ps

\* pattern_summary.setdefault(eff_pat, 0); pattern_summary[eff_pat] += 1
BumpPattern(ps, p) ==
    [x \in DOMAIN ps \cup {p} |-> IF x = p
                                  THEN (IF p \in DOMAIN ps THEN ps[p] ELSE 0) + 1
                                  ELSE ps[x]]

\* the sanity check both scripts make of the two summaries
TotalsAgree(cs, ps) == SumValues(cs) = SumValues(ps)

RECURSIVE Dedup(_)
\* the keys of a dict in insertion order: the first occurrences
Dedup(l) ==
    IF l = <<>> THEN <<>>
    ELSE LET front == Dedup(SubSeq(l, 1, Len(l) - 1))
         IN  IF l[Len(l)] \in Range(front) THEN front ELSE Append(front, l[Len(l)])

\* d.items() of a dict with the keys `keys`, in their order
Items(keys, d) == [i \in DOMAIN keys |-> <<keys[i], d[keys[i]]>>]

RECURSIVE InsertByCount(_, _)
\* into a list in non-increasing order of count, after the equal counts
InsertByCount(x, l) ==
    IF l = <<>> THEN <<x>>
    ELSE IF x[2] > Head(l)[2] THEN <<x>> \o l
    ELSE <<Head(l)>> \o InsertByCount(x, Tail(l))

sort_summary_dict_asInserted(items) == items

RECURSIVE sort_summary_dict(_)
\* sorted(d.items(), key=lambda x: x[1], reverse=True): stable
sort_summary_dict(items) ==
    IF items = <<>> THEN <<>>
    ELSE InsertByCount(items[Len(items)],
                       sort_summary_dict(SubSeq(items, 1, Len(items) - 1)))

WithCountAbove(l, n) == SelectSeq(l, LAMBDA x : x[2] > n)

\* the "Patterns" part: a line `p: n` for every item, sorted
make_pattern_summary(keys, ps) == sort_summary_dict(Items(keys, ps))

\* the "Crate Summary" and "Crate Totals" parts: a line `c: n` for every item
\* with n > 0, sorted, and the two totals
make_crate_summary(keys, cs) ==
    LET crate_sorted == sort_summary_dict(Items(keys, cs))
        nonzero == WithCountAbove(crate_sorted, 0)
    IN  [lines |-> nonzero,
         num_nonzero |-> Len(nonzero),
         num_zero |-> Len(crate_sorted) - Len(nonzero)]

\* no report (part) was made
NoReport == [patterns |-> <<>>, crates |-> <<>>, num_nonzero |-> 0, num_zero |-> 0]

\* the report with the given parts
Report(pats, cr) ==
    [patterns |-> pats, crates |-> cr.lines,
     num_nonzero |-> cr.num_nonzero, num_zero |-> cr.num_zero]

\* make_summary of scan.py: the assert, then the text of both summaries
make_summary(cs, ps) ==
    IF ~TotalsAgree(cs, ps) THEN "AssertionError" ELSE "summary"

----------------------------------------------------------------------------
(* The scan loop of scan.py (__main__) and of scripts/scan.py (main) *)

\* stand-ins for the two pattern lists of the scripts
OF_INTEREST_STD == << <<"a", "b">>, <<"b", "a">> >>
OF_INTEREST_OTHER == << <<"b">> >>

\* the effect column of a line printed by the external scan tool: a pattern
\* of the list or any other text
ToolPatterns == {<<"a", "b">>, <<"b">>, <<"a", "a">>}

\* the declarations scan_file finds in the files of a crate
LoopBodies ==
    { <<"a", "{", "b", ",", " ", "a", "}">>,
      <<"b", "{", "a", ",", "a", "}">>,
      <<"a", " ", "b">>,
      <<"b", ",", "a">> }

LoopInputs == {UseKw \o b \o <<";", "\n">> : b \in LoopBodies}

CrateNames == {"c1", "c2"}

CurCrate == crates[ci]

\* for i, crate in enumerate(crates): the next crate, download_crate is called
StartCrate ==
    /\ pc = "idle"
    /\ ci < Len(crates)
    /\ ci' = ci + 1
    /\ pc' = "downloading"
    /\ UNCHANGED <<have_dir, nstmt, pending, fetched, tool_failed>>
    /\ UNCHANGED <<parseVars, useVars, argVars, auxVars, sumVars, log, out>>

NeedsFetch_ignoreTestRun(exists, test) == ~exists

\* download_crate: cargo download is run when os.path.exists(target) is false
\* and it is not a test run
NeedsFetch(exists, test) == ~exists /\ ~test

\* logging.error(f"cargo-download failed for crate: {crate} ({e})")
DownloadFailedMsg(c) == [msg |-> "cargo-download failed for crate", crate |-> c]

\* download_crate: the target exists, or it is a test run: nothing is fetched
DownloadSkip ==
    /\ pc = "downloading"
    /\ ~NeedsFetch(CurCrate \in have_dir, test_run)
    /\ pc' = "scanning"
    /\ UNCHANGED <<parseVars, useVars, argVars, auxVars, loopVars, sumVars, log, out>>

\* download_crate: cargo download runs and succeeds
DownloadOk ==
    /\ pc = "downloading"
    /\ NeedsFetch(CurCrate \in have_dir, test_run)
    /\ fetched' = Append(fetched, CurCrate)
    /\ have_dir' = have_dir \cup {CurCrate}
    /\ pc' = "scanning"
    /\ UNCHANGED <<ci, nstmt, pending, tool_failed>>
    /\ UNCHANGED <<parseVars, useVars, argVars, auxVars, sumVars, log, out>>

\* download_crate: cargo download fails (CalledProcessError): the error is
\* logged and sys.exit(1) ends the run
DownloadFail ==
    /\ pc = "downloading"
    /\ NeedsFetch(CurCrate \in have_dir, test_run)
    /\ fetched' = Append(fetched, CurCrate)
    /\ log' = Append(log, DownloadFailedMsg(CurCrate))
    /\ pc' = "exit1"
    /\ UNCHANGED <<ci, have_dir, nstmt, pending, tool_failed>>
    /\ UNCHANGED <<parseVars, useVars, argVars, auxVars, sumVars, out>>

\* scan.py, scan_crate: scan_file finds a declaration, scan_use is run on it
ScanStmt ==
    /\ pc = "scanning"
    /\ script = "scan.py" /\ ~mirai
    /\ CurCrate \in have_dir
    /\ pending = <<>>
    /\ nstmt < MaxStmts
    /\ nstmt' = nstmt + 1
    /\ \E e \in LoopInputs :
          pending' = scan_use(CurCrate, "src", "lib.rs", e, of_interest)
    /\ UNCHANGED <<pc, ci, have_dir, fetched, tool_failed>>
    /\ UNCHANGED <<parseVars, useVars, argVars, auxVars, sumVars, log, out>>

\* scripts/scan.py, scan_crate: the tool prints a line, its effect column is
\* taken as the pattern
ToolLine ==
    /\ pc = "scanning"
    /\ script = "scripts/scan.py"
    /\ pending = <<>>
    /\ nstmt < MaxStmts
    /\ nstmt' = nstmt + 1
    /\ \E p \in ToolPatterns :
          pending' = <<Effect(CurCrate, p, "src", "lib.rs", <<"a">>)>>
    /\ UNCHANGED <<pc, ci, have_dir, fetched, tool_failed>>
    /\ UNCHANGED <<parseVars, useVars, argVars, auxVars, sumVars, log, out>>

\* scripts/scan.py, scan_crate: the first line the tool prints is not the CSV
\* header (the assert fails), or a later line has no fourth field (IndexError);
\* nothing catches the exception
ToolBadLine ==
    /\ pc = "scanning"
    /\ script = "scripts/scan.py"
    /\ pending = <<>>
    /\ pc' = "crashed"
    /\ UNCHANGED <<parseVars, useVars, argVars, auxVars, loopVars, sumVars, log, out>>

\* scan.py, the body of `for effect in scan_fun(...)`; an unseeded pattern is
\* a KeyError after the first two statements
RecordScanPy ==
    /\ pc = "scanning"
    /\ script = "scan.py"
    /\ pending # <<>>
    /\ pending' = Tail(pending)
    /\ results' = Append(results, Head(pending))
    /\ crate_summary' = BumpCrate(crate_summary, CurCrate)
    /\ IF Head(pending).pattern \in DOMAIN pattern_summary
       THEN /\ pattern_summary' = BumpPattern(pattern_summary, Head(pending).pattern)
            /\ pc' = pc
       ELSE /\ pattern_summary' = pattern_summary
            /\ pc' = "crashed"
    /\ UNCHANGED <<ci, have_dir, nstmt, fetched, tool_failed, summary>>
    /\ UNCHANGED <<parseVars, useVars, argVars, auxVars, log, out>>

\* scripts/scan.py, the body of `for eff_pat, eff_csv in scan_crate(...)`
RecordScripts ==
    /\ pc = "scanning"
    /\ script = "scripts/scan.py"
    /\ pending # <<>>
    /\ pending' = Tail(pending)
    /\ results' = Append(results, Head(pending))
    /\ crate_summary' = BumpCrate(crate_summary, CurCrate)
    /\ pattern_summary' = BumpPattern(pattern_summary, Head(pending).pattern)
    /\ UNCHANGED <<pc, ci, have_dir, nstmt, fetched, tool_failed, summary>>
    /\ UNCHANGED <<parseVars, useVars, argVars, auxVars, log, out>>

\* scripts/scan.py and scan.py --mirai read the output of a child process
\* (cargo scan, cargo mirai); scan.py without --mirai reads the files itself
ExternalTool == script = "scripts/scan.py" \/ mirai

\* scan.py --mirai, scan_crate_mirai: subprocess.run(["cargo", "clean"],
\* check=True) fails; nothing catches the CalledProcessError
CleanFail ==
    /\ pc = "scanning"
    /\ script = "scan.py" /\ mirai
    /\ pc' = "crashed"
    /\ UNCHANGED <<parseVars, useVars, argVars, auxVars, loopVars, sumVars, log, out>>

GeneratorExhausted_any(p) == TRUE

\* `for effect in scan_fun(...)` ends when the generator has nothing left
GeneratorExhausted(p) == p = <<>>

\* the generator is exhausted: the loop goes on to the next crate.  With an
\* external tool this is the end of its output (readline returns b""); the
\* tool has exited with some status rc, which neither script reads
CrateDone ==
    /\ pc = "scanning"
    /\ GeneratorExhausted(pending)
    /\ nstmt' = 0
    /\ pc' = "idle"
    /\ \E rc \in (IF ExternalTool THEN {0, 1} ELSE {0}) :
          tool_failed' = IF rc # 0 THEN Append(tool_failed, CurCrate)
                         ELSE tool_failed
    /\ UNCHANGED <<ci, have_dir, pending, fetched>>
    /\ UNCHANGED <<parseVars, useVars, argVars, auxVars, sumVars, log, out>>

\* the loop over the crates ends
LoopEnd ==
    /\ pc = "idle"
    /\ ci = Len(crates)
    /\ pc' = "report"
    /\ UNCHANGED <<parseVars, useVars, argVars, auxVars, loopVars, sumVars, log, out>>

\* the keys of crate_summary and of pattern_summary in insertion order: the
\* crates; the patterns of interest, then the patterns recorded
CrateKeys == Dedup(crates)
PatternKeys ==
    SelectSeq(Dedup(of_interest \o [i \in DOMAIN results |-> results[i].pattern]),
              LAMBDA q : q \in DOMAIN pattern_summary)

\* scan.py after the loop: nothing with --mirai; else the results (of a single
\* crate) and make_summary are logged, or save_results and save_summary run
ReportScanPy ==
    /\ pc = "report"
    /\ script = "scan.py"
    /\ LET asserted == make_summary(crate_summary, pattern_summary) = "AssertionError"
           made == Report(make_pattern_summary(PatternKeys, pattern_summary),
                          make_crate_summary(CrateKeys, crate_summary))
       IN  IF mirai THEN pc' = "done" /\ out' = out /\ summary' = summary
           ELSE IF ~prefix
           THEN IF asserted THEN pc' = "crashed" /\ out' = out /\ summary' = summary
                ELSE /\ pc' = "done"
                     /\ out' = (IF Len(crates) = 1 THEN {"results"} ELSE {})
                                    \cup {"patterns", "crates"}
                     /\ summary' = made
           ELSE IF asserted THEN pc' = "crashed" /\ out' = {"results"} /\ summary' = summary
                ELSE /\ pc' = "done"
                     /\ out' = {"results", "patterns", "crates"}
                     /\ summary' = made
    /\ UNCHANGED <<crate_summary, pattern_summary, results>>
    /\ UNCHANGED <<parseVars, useVars, argVars, auxVars, loopVars, log>>

\* logging.error("Logic error: crate summary and pattern summary were
\* inconsistent!")
InconsistentMsg == [msg |-> "Logic error: inconsistent summaries", crate |-> "-"]

\* scripts/scan.py after the loop: the sanity check logs an error, then the
\* results or the pattern totals and the crate summary are logged, or all
\* three are written
ReportScripts ==
    /\ pc = "report"
    /\ script = "scripts/scan.py"
    /\ log' = IF ~TotalsAgree(crate_summary, pattern_summary)
              THEN Append(log, InconsistentMsg)
              ELSE log
    /\ out' = IF ~prefix
              THEN (IF Len(crates) = 1 THEN {"results"} ELSE {"patterns"}) \cup {"crates"}
              ELSE {"results", "patterns", "crates"}
    /\ summary' = Report(IF ~prefix /\ Len(crates) = 1 THEN <<>>
                         ELSE make_pattern_summary(PatternKeys, pattern_summary),
                         make_crate_summary(CrateKeys, crate_summary))
    /\ pc' = "done"
    /\ UNCHANGED <<crate_summary, pattern_summary, results>>
    /\ UNCHANGED <<parseVars, useVars, argVars, auxVars, loopVars>>

----------------------------------------------------------------------------
(* The runs *)

ParseIdle == tree = NoTree /\ expr = <<>> /\ ret = NoRet
UseIdle ==
    /\ of_interest = <<>>
    /\ uses = <<>>
    /\ upos = 0
    /\ found = NoFound
    /\ emitted = <<>>

NoSummary == [x \in {} |-> 0]

\* scan_crate is not walking a tree
WalkIdle == fs = <<>> /\ todo = <<>>

NoEffect == [crate |-> <<>>, pattern |-> <<>>, dir |-> <<>>, file |-> <<>>, fun |-> <<>>]

\* to_csv is not called
CsvIdle == eff = NoEffect /\ csv = <<>>

\* fun1, src_dir1, path1 (fun2, ...) before their first assignment
NoEdge == [fun |-> <<>>, src_dir |-> <<>>, path |-> <<>>]

\* scan_crate_mirai is not called
MiraiIdle ==
    /\ lines = <<>>
    /\ lpos = 0
    /\ call_path_counter = 0
    /\ edge1 = NoEdge
    /\ edge2 = NoEdge
    /\ pairs = <<>>

\* scan_rs is not called
RsIdle == fh = <<>> /\ fpos = 0 /\ curr = <<>> /\ yielded = <<>>

\* the arguments are parsed and accepted; no call-graph viewer runs
MainIdle == verbose = 0 /\ log_level = "INFO" /\ proc = "none" /\ rendered = <<>>

AuxIdle == WalkIdle /\ CsvIdle /\ MiraiIdle /\ RsIdle /\ MainIdle

\* no script is running its scan loop
LoopIdle ==
    /\ script = "scan.py"
    /\ mirai = FALSE
    /\ test_run = FALSE
    /\ prefix = FALSE
    /\ crates = <<>>
    /\ ci = 0
    /\ have_dir = {}
    /\ nstmt = 0
    /\ pending = <<>>
    /\ fetched = <<>>
    /\ tool_failed = <<>>
    /\ crate_summary = NoSummary
    /\ pattern_summary = NoSummary
    /\ results = <<>>
    /\ summary = NoReport
    /\ log = <<>>
    /\ out = {}

ScanIdle == AuxIdle /\ LoopIdle

\* one call of parse_use on a drawn input
Init ==
    /\ pc = "call"
    /\ \/ tree = NoTree /\ expr \in RawInputs
       \/ tree \in Trees /\ expr = Decl(tree)
    /\ ret = NoRet
    /\ UseIdle
    /\ ScanIdle

ParseUse ==
    /\ pc = "call"
    /\ ret' = parse_use(expr)
    /\ pc' = IF ret'.raised THEN "raised" ELSE "returned"
    /\ UNCHANGED <<expr, tree, useVars, argVars, auxVars, loopVars, sumVars, log, out>>

Next == ParseUse

Spec == Init /\ [][Next]_vars

\* one call of scan_use on a drawn declaration and pattern list
InitScanUse ==
    /\ pc = "scan_use"
    /\ tree = NoTree
    /\ expr \in ScanUseInputs
    /\ ret = NoRet
    /\ of_interest \in PatternLists
    /\ uses = <<>>
    /\ upos = 0
    /\ found = NoFound
    /\ emitted = <<>>
    /\ ScanIdle

NextScanUse == ScanUseCall \/ ScanUseNext \/ ScanUseEnd

SpecScanUse == InitScanUse /\ [][NextScanUse]_vars

ActiveLists == {OF_INTEREST_STD, OF_INTEREST_STD \o OF_INTEREST_OTHER}

CrateLists == ListsUpTo(CrateNames, MaxCrates) \ {<<>>}

\* a run of either script from the start of its scan loop
InitScan ==
    /\ pc = "idle"
    /\ ParseIdle
    /\ AuxIdle
    /\ uses = <<>> /\ upos = 0 /\ found = NoFound /\ emitted = <<>>
    /\ of_interest \in ActiveLists
    /\ script \in {"scan.py", "scripts/scan.py"}
    /\ mirai \in BOOLEAN
    /\ script = "scripts/scan.py" => ~mirai
    /\ test_run \in BOOLEAN
    /\ prefix \in BOOLEAN
    /\ crates \in CrateLists
    /\ ci = 0
    /\ have_dir \in SUBSET Range(crates)
    /\ nstmt = 0
    /\ pending = <<>>
    /\ fetched = <<>>
    /\ tool_failed = <<>>
    /\ crate_summary = ZeroSummary(crates)
    /\ pattern_summary = ZeroSummary(of_interest)
    /\ results = <<>>
    /\ summary = NoReport
    /\ log = <<>>
    /\ out = {}

NextScan ==
    \/ StartCrate
    \/ DownloadSkip
    \/ DownloadOk
    \/ DownloadFail
    \/ ScanStmt
    \/ ToolLine
    \/ ToolBadLine
    \/ RecordScanPy
    \/ RecordScripts
    \/ CleanFail
    \/ CrateDone
    \/ LoopEnd
    \/ ReportScanPy
    \/ ReportScripts

SpecScan == InitScan /\ [][NextScan]_vars

\* the output phase of either script on drawn summaries: make_summary and
\* save_summary take any two mappings
InitSummary ==
    /\ pc = "report"
    /\ ParseIdle
    /\ AuxIdle
    /\ uses = <<>> /\ upos = 0 /\ found = NoFound /\ emitted = <<>>
    /\ of_interest \in ActiveLists
    /\ script \in {"scan.py", "scripts/scan.py"}
    /\ mirai \in BOOLEAN
    /\ script = "scripts/scan.py" => ~mirai
    /\ test_run = FALSE
    /\ prefix \in BOOLEAN
    /\ crates \in CrateLists
    /\ ci = Len(crates)
    /\ have_dir = Range(crates)
    /\ nstmt = 0
    /\ pending = <<>>
    /\ fetched = <<>>
    /\ tool_failed = <<>>
    /\ crate_summary \in [Range(crates) -> 0..MaxCount]
    /\ pattern_summary \in [Range(of_interest) -> 0..MaxCount]
    /\ results \in {<<>>, <<Effect(crates[1], of_interest[1], "src", "lib.rs", <<"a">>)>>}
    /\ summary = NoReport
    /\ log = <<>>
    /\ out = {}

NextSummary == ReportScanPy \/ ReportScripts

SpecSummary == InitSummary /\ [][NextSummary]_vars


----------------------------------------------------------------------------
(* scan_crate: os.walk over the src tree of a crate *)

\* file and directory names; a path is the sequence of its names
RUST_SRC == <<"s", "r", "c">>
FileNames == { <<"a", ".", "r", "s">>, <<"b", ".", "r", "s">>, <<"c", ".", "m", "d">> }
SubFileNames == { <<"a", ".", "r", "s">>, <<"b", ".", "r", "s">> }
DirD == <<"d">>
DirE == <<"e">>
WalkRoot == <<RUST_SRC>>

Dir(files, dirs) == [files |-> files, dirs |-> dirs]

\* no directory at all
NoDirs == [x \in {} |-> Dir({}, {})]

\* what may be below src/d: nothing, a directory of files, or one that also
\* holds a directory e of its own
SubTreesD ==
    {NoDirs}
        \cup {(<<RUST_SRC, DirD>> :> Dir(f, {})) : f \in SUBSET SubFileNames}
        \cup {(<<RUST_SRC, DirD>> :> Dir(f, {DirE}))
                  @@ (<<RUST_SRC, DirD, DirE>> :> Dir(g, {})) :
                  f \in SUBSET SubFileNames, g \in SUBSET {<<"a", ".", "r", "s">>}}

\* what may be below src/e
SubTreesE ==
    {NoDirs} \cup {(<<RUST_SRC, DirE>> :> Dir(f, {})) : f \in SUBSET SubFileNames}

\* the src trees of the modelled crates; NoDirs is a crate without src
WalkTrees ==
    {NoDirs} \cup
    { (WalkRoot :> Dir(f, {n \in {DirD, DirE} : <<RUST_SRC, n>> \in DOMAIN td \cup DOMAIN te}))
          @@ td @@ te :
          f \in SUBSET FileNames, td \in SubTreesD, te \in SubTreesE }

\* the orders in which os.scandir may list the names of a directory
Perms(S) == {l \in [1..Cardinality(S) -> S] : Range(l) = S}

SortNames_asListed(l) == l

\* files.sort(), dirs.sort()
SortNames(l) == Sorted(l)

\* os.path.splitext(file)[1]: from the last dot on, leading dots not counted
SplitExt(name) ==
    LET dots == {i \in DOMAIN name : name[i] = "." /\ \E j \in 1..(i - 1) : name[j] # "."}
    IN  IF dots = {} THEN <<>>
        ELSE SubSeq(name, CHOOSE i \in dots : \A j \in dots : j <= i, Len(name))

\* the one declaration scan_rs and the `use` regex find in a file
FileDecl(file) ==
    IF file[1] = "a" THEN UseKw \o <<"a", "b", ";", "\n">>
    ELSE UseKw \o <<"{", "a", "b", ",", "b", "a", "}", ";", "\n">>

RECURSIVE ScanFiles(_, _, _, _)
\* for file in files: if the extension is ".rs": yield from scan_file(...)
ScanFiles(root, files, i, pats) ==
    IF i > Len(files) THEN <<>>
    ELSE (IF SplitExt(files[i]) = <<".", "r", "s">>
          THEN scan_use(ArgCrate, root, files[i], FileDecl(files[i]), pats)
          ELSE <<>>)
         \o ScanFiles(root, files, i + 1, pats)

\* one step of `for root, dirs, files in os.walk(src)`: the next directory
\* is listed in some order, both lists are sorted in place, the files are
\* scanned, and os.walk goes on with the directories of dirs, in the order
\* of dirs, before those it already had to visit
WalkDir ==
    /\ pc = "walk"
    /\ todo # <<>>
    /\ LET root == Head(todo)
       IN  IF root \notin DOMAIN fs
           THEN todo' = Tail(todo) /\ emitted' = emitted
           ELSE \E fl \in Perms(fs[root].files), dl \in Perms(fs[root].dirs) :
                   LET files == SortNames(fl)
                       dirs == SortNames(dl)
                   IN  /\ emitted' = emitted \o ScanFiles(root, files, 1, of_interest)
                       /\ todo' = [i \in 1..Len(dirs) |-> Append(root, dirs[i])]
                                      \o Tail(todo)
    /\ UNCHANGED <<pc, fs, csvVars, miraiVars, rsVars, mainVars, parseVars, of_interest, uses, upos, found>>
    /\ UNCHANGED <<argVars, loopVars, sumVars, log, out>>

\* os.walk is exhausted
WalkEnd ==
    /\ pc = "walk"
    /\ todo = <<>>
    /\ pc' = "walked"
    /\ UNCHANGED <<parseVars, useVars, argVars, auxVars, loopVars, sumVars, log, out>>

\* scan_crate on a drawn src tree
InitWalk ==
    /\ pc = "walk"
    /\ ParseIdle
    /\ uses = <<>> /\ upos = 0 /\ found = NoFound /\ emitted = <<>>
    /\ of_interest \in ActiveLists
    /\ LoopIdle
    /\ CsvIdle
    /\ MiraiIdle
    /\ RsIdle
    /\ MainIdle
    /\ fs \in WalkTrees
    /\ todo = <<WalkRoot>>

NextWalk == WalkDir \/ WalkEnd

SpecWalk == InitWalk /\ [][NextWalk]_vars

----------------------------------------------------------------------------
(* Effect.to_csv and sanitize_comma *)

\* the index of the first occurrence of sep in s at or after i, 0 if none
RECURSIVE FindFrom(_, _, _)
FindFrom(s, sep, i) ==
    IF i + Len(sep) - 1 > Len(s) THEN 0
    ELSE IF SubSeq(s, i, i + Len(sep) - 1) = sep THEN i
    ELSE FindFrom(s, sep, i + 1)

\* s.split(sep) for a non-empty sep
RECURSIVE Split(_, _)
Split(s, sep) ==
    LET i == FindFrom(s, sep, 1)
    IN  IF i = 0 THEN <<s>>
        ELSE <<SubSeq(s, 1, i - 1)>> \o Split(SubSeq(s, i + Len(sep), Len(s)), sep)

\* sep.join(parts)
RECURSIVE Join(_, _)
Join(sep, parts) ==
    IF parts = <<>> THEN <<>>
    ELSE IF Len(parts) = 1 THEN parts[1]
    ELSE parts[1] \o sep \o Join(sep, Tail(parts))

CommaSpace == <<",", " ">>

sanitize_comma_keep(str) == str

\* sanitize_comma: s.replace(',', '') (and a warning when there was a comma)
sanitize_comma(str) == RemoveChar(str, ",")

\* Effect.csv_header()
csv_header ==
    Join(CommaSpace, << <<"c", "r", "a", "t", "e">>,
                        <<"p", "a", "t", "t", "e", "r", "n", " ", "o", "f", " ", "i", "n", "t", "e", "r", "e", "s", "t">>,
                        <<"d", "i", "r", "e", "c", "t", "o", "r", "y">>,
                        <<"f", "i", "l", "e">>,
                        <<"u", "s", "e", " ", "l", "i", "n", "e">> >>)

\* Effect.to_csv(self)
to_csv(e) ==
    Join(CommaSpace, << sanitize_comma(e.crate), sanitize_comma(e.pattern),
                        sanitize_comma(e.dir), sanitize_comma(e.file),
                        sanitize_comma(e.fun) >>)

\* the texts a field of an Effect may hold: with commas anywhere, with the
\* separator itself, empty
CsvFields ==
    { <<>>, <<"a">>, <<",">>, <<"a", ",", "b">>, <<",", " ">>, <<" ", ",", "a", ",">> }

ToCsv ==
    /\ pc = "to_csv"
    /\ csv' = to_csv(eff)
    /\ pc' = "csv"
    /\ UNCHANGED <<eff, walkVars, miraiVars, rsVars, mainVars>>
    /\ UNCHANGED <<parseVars, useVars, argVars, loopVars, sumVars, log, out>>

\* one call of to_csv on a drawn Effect
InitCsv ==
    /\ pc = "to_csv"
    /\ ParseIdle
    /\ UseIdle
    /\ LoopIdle
    /\ WalkIdle
    /\ MiraiIdle
    /\ RsIdle
    /\ MainIdle
    /\ eff \in [crate : CsvFields, pattern : CsvFields, dir : CsvFields,
                 file : CsvFields, fun : CsvFields]
    /\ csv = <<>>

NextCsv == ToCsv

SpecCsv == InitCsv /\ [][NextCsv]_vars

----------------------------------------------------------------------------
(* parse_mirai_call_line and scan_crate_mirai *)

\* s.replace(old, new) for a non-empty old
Replace(str, old, new) == Join(new, Split(str, old))

\* the chain of replace calls, then strip() and split(" ")
MiraiParts(line) ==
    LET r1 == Replace(line, <<" ", "(">>, <<" ">>)
        r2 == Replace(r1, <<"(">>, <<" ">>)
        r3 == Replace(r2, <<" ", "~", " ">>, <<" ">>)
        r4 == Replace(r3, <<")", ",", " ">>, <<" ">>)
        r5 == Replace(r4, <<")">>, <<" ">>)
        r6 == Replace(r5, <<":", " ">>, <<" ">>)
    IN  Split(Strip(r6), <<" ">>)

\* parse_mirai_call_line: None (with a warning) unless there are 6 parts;
\* `src_dir, path = tuple(parts[3].split("/"))` raises ValueError unless the
\* location has exactly one "/"
parse_mirai_call_line(line) ==
    LET parts == MiraiParts(line)
    IN  IF Len(parts) # 6
        THEN [status |-> "none", edge |-> NoEdge]
        ELSE LET loc == Split(parts[4], <<"/">>)
             IN  IF Len(loc) # 2
                 THEN [status |-> "raised", edge |-> NoEdge]
                 ELSE [status |-> "ok",
                       edge |-> [fun |-> parts[3], src_dir |-> loc[1], path |-> loc[2]]]

NewFnLine == <<"~", "~", "~", "N", "e", "w", " ", "F", "n", "~", "~", "~", "~", "~">>
CallPathLine == <<"C", "a", "l", "l", " ", "P", "a", "t", "h", ":">>
CallPrefix == <<"C", "a", "l", "l", ":", " ">>

\* line[0:n]
Take(str, n) == SubSeq(str, 1, IF n < Len(str) THEN n ELSE Len(str))
\* line[n:]
Drop(str, n) == SubSeq(str, n + 1, Len(str))

\* a well-formed `Call:` line for the function f at the location loc
CallLine(f, loc) ==
    CallPrefix \o <<"D", "(", "0", " ", "~", " ">> \o f \o <<")", ",", " ">> \o loc
        \o <<":", " ", "3", " ", "(", "#", ")">>

SrcLib == <<"s", "/", "l">>

\* the lines the tool may print: the markers, well-formed `Call:` lines of
\* three functions (one with a disambiguation tag as in num_cpus[1818]::get,
\* one padded with white space), a `Call:` line with too
\* few parts, one whose location is in a sub-directory (two "/"), and
\* something else
MiraiLines ==
    { NewFnLine, CallPathLine,
      CallLine(<<"f">>, SrcLib), CallLine(<<"g", "[", "1", "]">>, SrcLib),
      <<" ">> \o CallLine(<<"h">>, SrcLib) \o <<"\n">>,
      CallPrefix \o <<"D", "(", "0", " ", "~", " ", "f", ")">>,
      CallLine(<<"f">>, <<"s", "/", "d", "/", "l">>),
      <<"x">> }

CounterAtCallPath_kept(n) == n

\* elif line == "Call Path:": call_path_counter = 0
CounterAtCallPath(n) == 0

\* one iteration of `for line in iter(proc.stdout.readline, b"")`
MiraiLine ==
    /\ pc = "mirai"
    /\ lpos < Len(lines)
    /\ lpos' = lpos + 1
    /\ LET line == Strip(lines[lpos + 1])
           result == parse_mirai_call_line(Drop(line, 6))
       IN  IF line = NewFnLine
           THEN UNCHANGED <<pc, call_path_counter, edge1, edge2, pairs>>
           ELSE IF line = CallPathLine
           THEN /\ call_path_counter' = CounterAtCallPath(call_path_counter)
                /\ UNCHANGED <<pc, edge1, edge2, pairs>>
           ELSE IF Take(line, 6) = CallPrefix
           THEN IF result.status = "raised"
                THEN /\ pc' = "raised"
                     /\ UNCHANGED <<call_path_counter, edge1, edge2, pairs>>
                ELSE IF result.status = "none"
                THEN UNCHANGED <<pc, call_path_counter, edge1, edge2, pairs>>
                ELSE /\ call_path_counter' = call_path_counter + 1
                     /\ edge1' = IF call_path_counter' = 1 THEN result.edge ELSE edge1
                     /\ edge2' = IF call_path_counter' = 2 THEN result.edge ELSE edge2
                     /\ pairs' = IF call_path_counter' = 2
                                 THEN Append(pairs, [callee |-> edge1,
                                                     caller |-> result.edge,
                                                     at |-> lpos + 1])
                                 ELSE pairs
                     /\ pc' = pc
           ELSE UNCHANGED <<pc, call_path_counter, edge1, edge2, pairs>>
    /\ UNCHANGED <<lines, walkVars, csvVars, rsVars, mainVars>>
    /\ UNCHANGED <<parseVars, useVars, argVars, loopVars, sumVars, log, out>>

\* the output of the tool has ended: `yield from []`, the generator returns
MiraiEnd ==
    /\ pc = "mirai"
    /\ lpos = Len(lines)
    /\ emitted' = emitted \o <<>>
    /\ pc' = "exhausted"
    /\ UNCHANGED <<parseVars, of_interest, uses, upos, found>>
    /\ UNCHANGED <<argVars, auxVars, loopVars, sumVars, log, out>>

\* scan_crate_mirai reading a drawn stream of lines
InitMirai ==
    /\ pc = "mirai"
    /\ ParseIdle
    /\ UseIdle
    /\ LoopIdle
    /\ WalkIdle
    /\ CsvIdle
    /\ RsIdle
    /\ MainIdle
    /\ lines \in ListsUpTo(MiraiLines, MaxLines)
    /\ lpos = 0
    /\ call_path_counter = 0
    /\ edge1 = NoEdge
    /\ edge2 = NoEdge
    /\ pairs = <<>>

NextMirai == MiraiLine \/ MiraiEnd

SpecMirai == InitMirai /\ [][NextMirai]_vars

----------------------------------------------------------------------------
(* scan_rs: the statements of a rust file *)

\* the index of the last occurrence of sep in s that starts at or after i,
\* 0 if none
LastFrom(s, sep, i) ==
    LET at == {j \in i..(Len(s) - Len(sep) + 1) : SubSeq(s, j, j + Len(sep) - 1) = sep}
    IN  IF at = {} THEN 0 ELSE CHOOSE j \in at : \A k \in at : k <= j

\* the index of the first character of s that is not a space, Len(s) + 1 if
\* there is none
FirstNonSpace(s) ==
    LET at == {j \in 1..Len(s) : s[j] # " "}
    IN  IF at = {} THEN Len(s) + 1 ELSE CHOOSE j \in at : \A k \in at : j <= k

\* re.sub("[ ]*//.*\n", "\n", s): `.` does not match a newline, so a match
\* runs from the spaces before `//` to the first newline after it
RECURSIVE SubLineComments(_)
SubLineComments(s) ==
    IF s = <<>> THEN <<>>
    ELSE LET j == FirstNonSpace(s)
             slashes == j + 1 <= Len(s) /\ s[j] = "/" /\ s[j + 1] = "/"
             k == IF slashes THEN FindFrom(s, <<"\n">>, j + 2) ELSE 0
         IN  IF k > 0 THEN <<"\n">> \o SubLineComments(Drop(s, k))
             ELSE <<Head(s)>> \o SubLineComments(Tail(s))

\* re.sub("/\*.*\*/", "", s, flags=re.DOTALL): greedy, from the first `/*`
\* to the last `*/` after it
SubBlockComments(s) ==
    LET i == FindFrom(s, <<"/", "*">>, 1)
        j == IF i = 0 THEN 0 ELSE LastFrom(s, <<"*", "/">>, i + 2)
    IN  IF j = 0 THEN s ELSE SubSeq(s, 1, i - 1) \o Drop(s, j + 1)

\* re.sub("/\*.*$", "", s, flags=re.DOTALL): from the first `/*` to the end
SubOpenComment(s) ==
    LET i == FindFrom(s, <<"/", "*">>, 1)
    IN  IF i = 0 THEN s ELSE SubSeq(s, 1, i - 1)

\* re.sub("^.*\*/", "", s, flags=re.DOTALL): from the start to the last `*/`
SubCloseComment(s) ==
    LET j == LastFrom(s, <<"*", "/">>, 1)
    IN  IF j = 0 THEN s ELSE Drop(s, j + 1)

\* the four substitutions scan_rs applies to curr before it yields it
SubComments(s) ==
    SubCloseComment(SubOpenComment(SubBlockComments(SubLineComments(s))))

\* list(scan_rs(f)) for the lines f, read from line i on with c accumulated
RECURSIVE ScanRsFrom(_, _, _)
ScanRsFrom(f, i, c) ==
    IF i > Len(f) THEN <<>>
    ELSE LET c2 == c \o f[i]
         IN  IF HasChar(c2, ";")
             THEN <<SubComments(c2)>> \o ScanRsFrom(f, i + 1, <<>>)
             ELSE ScanRsFrom(f, i + 1, c2)

scan_rs(f) == ScanRsFrom(f, 1, <<>>)

\* lines that end with a newline
RsLines ==
    { <<"a", "\n">>,
      <<"b", ";", "\n">>,
      <<"a", "/", "/", ";", "\n">>,
      <<"a", " ", "/", "/", "b", "\n">>,
      <<"/", "*", "a", "\n">>,
      <<"b", "*", "/", "a", ";", "\n">>,
      <<"a", ";", "/", "*", "b", "\n">>,
      <<"/", "*", ";", "*", "/", "a", "\n">> }

\* what the last line of a file without a final newline can be
RsLastLines == { <<"a", ";">>, <<"b">> }

\* the files: only the last line of a file can lack its newline
RsFiles ==
    ListsUpTo(RsLines, MaxRsLines)
        \cup { Append(f, l) : f \in ListsUpTo(RsLines, MaxRsLines - 1), l \in RsLastLines }

\* one turn of `for line in fh`
ScanRsLine ==
    /\ pc = "scan_rs"
    /\ fpos < Len(fh)
    /\ fpos' = fpos + 1
    /\ LET c == curr \o fh[fpos + 1]
       IN  IF HasChar(c, ";")
           THEN yielded' = Append(yielded, SubComments(c)) /\ curr' = <<>>
           ELSE curr' = c /\ UNCHANGED yielded
    /\ UNCHANGED <<pc, fh, walkVars, csvVars, miraiVars, mainVars>>
    /\ UNCHANGED <<parseVars, useVars, argVars, loopVars, sumVars, log, out>>

\* the handle is exhausted: the generator returns, curr is dropped
ScanRsEnd ==
    /\ pc = "scan_rs"
    /\ fpos = Len(fh)
    /\ pc' = "rs_done"
    /\ UNCHANGED <<parseVars, useVars, argVars, auxVars, loopVars, sumVars, log, out>>

\* scan_rs reading a drawn file
InitScanRs ==
    /\ pc = "scan_rs"
    /\ ParseIdle
    /\ UseIdle
    /\ LoopIdle
    /\ WalkIdle
    /\ CsvIdle
    /\ MiraiIdle
    /\ MainIdle
    /\ fh \in RsFiles
    /\ fpos = 0
    /\ curr = <<>>
    /\ yielded = <<>>

NextScanRs == ScanRsLine \/ ScanRsEnd

SpecScanRs == InitScanRs /\ [][NextScanRs]_vars

----------------------------------------------------------------------------
(* main of scripts/scan.py up to its scan loop, and main of view_callgraph.py *)

\* the list log_level is picked from, indexed by args.verbose (from 0)
LogLevels == <<"INFO", "ERROR", "WARNING", "INFO", "DEBUG">>

\* the count above which main refuses to run
VerbosityGuard(s) == IF s = "scripts/scan.py" THEN 5 ELSE 4

VerbosityMsg == [msg |-> "verbosity only goes up to 4 (-vvvv)", crate |-> "-"]

\* main after parse_args: the guard on args.verbose, then the pick of the
\* log level; scripts/scan.py goes on to its scan loop (SpecScan), and
\* view_callgraph.py to download_crate
ParseArgs ==
    /\ pc = "args"
    /\ IF verbose > VerbosityGuard(script)
       THEN /\ log' = Append(log, VerbosityMsg)
            /\ pc' = "exit1"
            /\ UNCHANGED log_level
       ELSE IF verbose + 1 \in DOMAIN LogLevels
       THEN /\ log_level' = LogLevels[verbose + 1]
            /\ pc' = IF script = "scripts/scan.py" THEN "idle" ELSE "download"
            /\ UNCHANGED log
       ELSE /\ pc' = "IndexError"
            /\ UNCHANGED <<log, log_level>>
    /\ UNCHANGED <<verbose, proc, rendered, walkVars, csvVars, miraiVars, rsVars>>
    /\ UNCHANGED <<parseVars, useVars, argVars, loopVars, sumVars, out>>

\* the crate view_callgraph.py was called for
ViewCrate == crates[1]

\* download_crate: the target exists, or it is a test run
ViewDownloadSkip ==
    /\ pc = "download"
    /\ ViewCrate \in have_dir \/ test_run
    /\ pc' = "run_mirai"
    /\ UNCHANGED <<parseVars, useVars, argVars, auxVars, loopVars, sumVars, log, out>>

\* download_crate: cargo download is run and succeeds
ViewDownloadOk ==
    /\ pc = "download"
    /\ ViewCrate \notin have_dir /\ ~test_run
    /\ fetched' = Append(fetched, ViewCrate)
    /\ have_dir' = have_dir \cup {ViewCrate}
    /\ pc' = "run_mirai"
    /\ UNCHANGED <<ci, nstmt, pending, tool_failed>>
    /\ UNCHANGED <<parseVars, useVars, argVars, auxVars, sumVars, log, out>>

\* download_crate: cargo download fails; main logs the error and exits
ViewDownloadFail ==
    /\ pc = "download"
    /\ ViewCrate \notin have_dir /\ ~test_run
    /\ fetched' = Append(fetched, ViewCrate)
    /\ log' = Append(log, DownloadFailedMsg(ViewCrate))
    /\ pc' = "exit1"
    /\ UNCHANGED <<ci, have_dir, nstmt, pending, tool_failed>>
    /\ UNCHANGED <<parseVars, useVars, argVars, auxVars, sumVars, out>>

\* run_mirai: `cargo clean` fails, or the crate directory is missing (a test
\* run of a crate that is not there): subprocess.run raises
RunMiraiRaises ==
    /\ pc = "run_mirai"
    /\ pc' = "main_raised"
    /\ UNCHANGED <<parseVars, useVars, argVars, auxVars, loopVars, sumVars, log, out>>

\* run_mirai: `cargo clean`, then Popen starts `cargo mirai` and returns
RunMirai ==
    /\ pc = "run_mirai"
    /\ ViewCrate \in have_dir
    /\ proc' = "running"
    /\ pc' = "render"
    /\ UNCHANGED <<verbose, log_level, rendered, walkVars, csvVars, miraiVars, rsVars>>
    /\ UNCHANGED <<parseVars, useVars, argVars, loopVars, sumVars, log, out>>

\* the `cargo mirai` process terminates, whenever it does
MiraiExit ==
    /\ proc = "running"
    /\ proc' = "exited"
    /\ UNCHANGED <<pc, verbose, log_level, rendered, walkVars, csvVars, miraiVars, rsVars>>
    /\ UNCHANGED <<parseVars, useVars, argVars, loopVars, sumVars, log, out>>

\* view_callgraph_mirai: dot on graph.dot, then open on graph.png; either
\* may exit with a non-zero status, which subprocess.run raises
ViewCallgraphMirai ==
    /\ pc = "render"
    /\ rendered' = Append(rendered, proc)
    /\ \E rc_dot \in {0, 1}, rc_open \in {0, 1} :
           pc' = IF rc_dot = 0 /\ rc_open = 0 THEN "done" ELSE "main_raised"
    /\ UNCHANGED <<verbose, log_level, proc, walkVars, csvVars, miraiVars, rsVars>>
    /\ UNCHANGED <<parseVars, useVars, argVars, loopVars, sumVars, log, out>>

\* a script started with a drawn number of -v flags for one crate
InitMain ==
    /\ pc = "args"
    /\ ParseIdle
    /\ UseIdle
    /\ WalkIdle
    /\ CsvIdle
    /\ MiraiIdle
    /\ RsIdle
    /\ script \in {"scripts/scan.py", "view_callgraph.py"}
    /\ mirai = FALSE
    /\ test_run \in BOOLEAN
    /\ prefix = FALSE
    /\ crates \in {<<c>> : c \in CrateNames}
    /\ ci = 0
    /\ have_dir \in SUBSET Range(crates)
    /\ nstmt = 0
    /\ pending = <<>>
    /\ fetched = <<>>
    /\ tool_failed = <<>>
    /\ crate_summary = NoSummary
    /\ pattern_summary = NoSummary
    /\ results = <<>>
    /\ summary = NoReport
    /\ log = <<>>
    /\ out = {}
    /\ verbose \in 0..MaxVerbose
    /\ log_level = "unset"
    /\ proc = "none"
    /\ rendered = <<>>

NextMain ==
    \/ ParseArgs
    \/ ViewDownloadSkip
    \/ ViewDownloadOk
    \/ ViewDownloadFail
    \/ RunMiraiRaises
    \/ RunMirai
    \/ MiraiExit
    \/ ViewCallgraphMirai

SpecMain == InitMain /\ [][NextMain]_vars

----------------------------------------------------------------------------
(* What the claims about parse_use speak of *)

\* index of the last occurrence of c in s, 0 if there is none
LastIndexOf(s, c) ==
    LET at == {i \in DOMAIN s : s[i] = c}
    IN  IF at = {} THEN 0 ELSE CHOOSE i \in at : \A j \in at : j <= i

\* the declaration body: the text between `use ` and the final `;`
\* (a multi-line declaration is read with its newlines removed)
BodyOf(e) == RemoveChar(SubSeq(e, 5, LastIndexOf(e, ";") - 1), "\n")

EndsWithNewline(e) == e # <<>> /\ e[Len(e)] = "\n"
BeginsWithUse(e) == Len(e) >= 4 /\ SubSeq(e, 1, 4) = UseKw
\* everything after the final `;` is line ends
BodyEndsWithSemicolon(e) ==
    /\ HasChar(e, ";")
    /\ \A i \in DOMAIN e : i > LastIndexOf(e, ";") => e[i] = "\n"

\* all precondition checks of parse_use pass
PrecondsHold(e) ==
    /\ EndsWithNewline(e)
    /\ BeginsWithUse(e)
    /\ HasChar(e, ";")
    /\ ~HasChar(e, "/")
    /\ BodyEndsWithSemicolon(e)

NoBraces(e) == ~HasChar(e, "{") /\ ~HasChar(e, "}")

StrictlyIncreasing(l) == \A i, j \in DOMAIN l : i < j => StrLess(l[i], l[j])

\* braces open at the end of b, or -1 when b has a `,` or a `}` outside every group
RECURSIVE OpenAtEnd(_, _, _)
OpenAtEnd(b, i, depth) ==
    IF i > Len(b) THEN depth
    ELSE IF b[i] = "{" THEN OpenAtEnd(b, i + 1, depth + 1)
    ELSE IF b[i] \in {",", "}"} /\ depth = 0 THEN -1
    ELSE IF b[i] = "}" THEN OpenAtEnd(b, i + 1, depth - 1)
    ELSE OpenAtEnd(b, i + 1, depth)

RECURSIVE Closers(_)
Closers(k) == IF k <= 0 THEN <<>> ELSE <<"}">> \o Closers(k - 1)

\* the declaration e with k closing braces appended to its body
WithClosers(e, k) ==
    LET j == LastIndexOf(e, ";")
    IN  SubSeq(e, 1, j - 1) \o Closers(k) \o SubSeq(e, j, Len(e))

----------------------------------------------------------------------------
(* C1..C5: parse_use *)

\* C1: for a well-formed declaration use P{a1,...,an}; with groups nested to
\* any depth, parse_use returns exactly the set of the concatenations of the
\* (trimmed) segments along each root-to-leaf path of the group tree.
C1_GroupExpansion ==
    (pc # "call" /\ tree # NoTree) =>
        (~ret.raised /\ Range(ret.result) = Expansion(tree))

\* a::{b::{c,d},e}: a nested group with two items beside a plain item
C1_Witness ==
    /\ pc = "returned"
    /\ tree # NoTree
    /\ tree.n = 5
    /\ tree.parent = <<0, 1, 2, 2, 1>>
    /\ \A i \in 1..5 : Strip(tree.seg[i]) # <<>>
    /\ Cardinality(Range(ret.result)) = 3

\* C2 as claimed: a declaration without `{` and `}` that passes the
\* precondition checks returns exactly one element, its trimmed body.
C2_NoGroupOriginal ==
    (pc # "call" /\ tree = NoTree /\ NoBraces(expr) /\ PrecondsHold(expr)) =>
        (~ret.raised /\ ret.result = <<Strip(BodyOf(expr))>>)

\* C2 as amended: a declaration without `{`, `}` and `,` that passes the
\* precondition checks returns exactly one element, its body with line ends
\* removed and surrounding whitespace trimmed.
C2_NoGroupNoComma ==
    (pc # "call" /\ tree = NoTree /\ NoBraces(expr) /\ ~HasChar(expr, ",")
        /\ PrecondsHold(expr)) =>
        (~ret.raised /\ ret.result = <<Strip(BodyOf(expr))>>)

\* a body with whitespace around and inside it: `use  a b;`
C2_Witness ==
    /\ pc = "returned"
    /\ tree = NoTree
    /\ NoBraces(expr) /\ ~HasChar(expr, ",") /\ PrecondsHold(expr)
    /\ BodyOf(expr) = <<" ", "a", " ", "b">>
    /\ ret.result = <<<<"a", " ", "b">>>>

\* C3 as claimed: the returned list is strictly increasing, no path twice.
C3_Deduplicated == pc = "returned" => StrictlyIncreasing(ret.result)

\* C4 as claimed: parse_use never raises, and a failed precondition gives the
\* empty list and a logged warning.
C4_NeverRaises ==
    pc # "call" =>
        /\ ~ret.raised
        /\ ~PrecondsHold(expr) => (ret.result = <<>> /\ ret.warn # <<>>)

\* C5: a declaration whose only defect is k >= 1 groups left open at the end
\* of its body does not raise, logs the warning, and returns what the same
\* declaration returns with k closing braces appended.
C5_UnclosedFlushed ==
    (pc # "call" /\ tree = NoTree /\ PrecondsHold(expr)
        /\ OpenAtEnd(BodyOf(expr), 1, 0) >= 1) =>
        /\ ~ret.raised
        /\ \E i \in DOMAIN ret.warn : ret.warn[i] = "unclosed {"
        /\ ret.result =
             parse_use(WithClosers(expr, OpenAtEnd(BodyOf(expr), 1, 0))).result

\* `use {{a,b;`: two groups left open, two paths returned
C5_Witness ==
    /\ pc = "returned"
    /\ tree = NoTree
    /\ PrecondsHold(expr)
    /\ OpenAtEnd(BodyOf(expr), 1, 0) = 2
    /\ Len(ret.result) = 2
    /\ ret.result[1] # ret.result[2]

----------------------------------------------------------------------------
(* C6, C7: is_of_interest and scan_use *)

\* the positions of the patterns of pats that occur in text
MatchingAt(text, pats) == {i \in DOMAIN pats : ReSearch(pats[i], text)}

SetMax(S) == CHOOSE x \in S : \A y \in S : y <= x

\* C6: is_of_interest returns none exactly when no pattern occurs in the text,
\* else the last pattern of the list among those that occur, and it warns
\* exactly when more than one pattern occurs.
C6_LastMatch ==
    (pc = "loop" /\ upos >= 1) =>
        LET m == MatchingAt(uses[upos], of_interest)
        IN  /\ (found.pat = None) <=> (m = {})
            /\ m # {} => found.pat = of_interest[SetMax(m)]
            /\ (found.nwarn >= 1) <=> (Cardinality(m) > 1)

\* three different patterns of which the first and the last occur
C6_Witness ==
    /\ pc = "loop" /\ upos >= 1
    /\ Len(of_interest) = 3
    /\ MatchingAt(uses[upos], of_interest) = {1, 3}
    /\ of_interest[1] # of_interest[3]
    /\ found.pat = of_interest[3]
    /\ found.nwarn = 1

\* the i-th smallest element of a set of numbers
RECURSIVE Nth(_, _)
Nth(S, i) ==
    LET least == CHOOSE x \in S : \A y \in S : x <= y
    IN  IF i = 1 THEN least ELSE Nth(S \ {least}, i - 1)

\* C7: scan_use emits one Effect for each path returned by parse_use in which
\* some pattern occurs and none for the others; the Effect carries the path
\* and a pattern of the active list.
C7_OneEffectPerMatch ==
    (pc \in {"loop", "exhausted"}) =>
        LET taken == {i \in 1..upos : MatchingAt(uses[i], of_interest) # {}}
        IN  /\ uses = ret.result
            /\ pc = "exhausted" => upos = Len(uses)
            /\ Len(emitted) = Cardinality(taken)
            /\ \A j \in DOMAIN emitted :
                   /\ emitted[j].fun = uses[Nth(taken, j)]
                   /\ \E i \in DOMAIN of_interest : emitted[j].pattern = of_interest[i]
                   /\ ReSearch(emitted[j].pattern, emitted[j].fun)
                   /\ emitted[j].crate = ArgCrate

\* use a{b,a}; under the pattern list [ab]: an Effect for ab, none for aa
C7_Witness ==
    /\ pc = "exhausted"
    /\ of_interest = <<<<"a", "b">>>>
    /\ uses = << <<"a", "a">>, <<"a", "b">> >>
    /\ Len(emitted) = 1
    /\ emitted[1].fun = <<"a", "b">>
    /\ emitted[1].pattern = <<"a", "b">>

----------------------------------------------------------------------------
(* C8..C10: the summaries *)

\* C8: in every state of the scan loop the counts of CrateSummary and the
\* counts of PatternSummary have the same sum.
C8_TotalsEqual == SumValues(crate_summary) = SumValues(pattern_summary)

\* a crate listed twice and a pattern that was not seeded, two Effects recorded
C8_Witness ==
    /\ pc = "done"
    /\ crates = <<"c1", "c1">>
    /\ Len(results) = 2
    /\ \E p \in DOMAIN pattern_summary :
          /\ \A i \in DOMAIN of_interest : of_interest[i] # p
          /\ pattern_summary[p] >= 1
    /\ SumValues(crate_summary) = 2

\* C9: recording an Effect of crate c with pattern p adds one to
\* CrateSummary[c] and to PatternSummary[p] (a new key starts at 0) and
\* changes no other entry and not the keys of CrateSummary; no step lowers
\* a count.
C9_RecordFrame ==
    [][ /\ Len(results') = Len(results) + 1 =>
             LET e == results'[Len(results')]
             IN  /\ DOMAIN crate_summary' = DOMAIN crate_summary
                 /\ \A c \in DOMAIN crate_summary :
                        crate_summary'[c] =
                            crate_summary[c] + (IF c = e.crate THEN 1 ELSE 0)
                 /\ DOMAIN pattern_summary' = DOMAIN pattern_summary \cup {e.pattern}
                 /\ \A q \in DOMAIN pattern_summary' :
                        pattern_summary'[q] =
                            (IF q \in DOMAIN pattern_summary THEN pattern_summary[q] ELSE 0)
                                + (IF q = e.pattern THEN 1 ELSE 0)
        /\ \A c \in DOMAIN crate_summary :
               c \in DOMAIN crate_summary' /\ crate_summary'[c] >= crate_summary[c]
        /\ \A q \in DOMAIN pattern_summary :
               q \in DOMAIN pattern_summary' /\ pattern_summary'[q] >= pattern_summary[q]
      ]_vars

\* an Effect with an unseeded pattern was recorded for the second of two crates
C9_Witness ==
    /\ script = "scripts/scan.py"
    /\ crates = <<"c1", "c2">>
    /\ Len(results) = 1
    /\ results[1].crate = "c2"
    /\ crate_summary["c1"] = 0 /\ crate_summary["c2"] = 1
    /\ \A i \in DOMAIN of_interest : of_interest[i] # results[1].pattern
    /\ pattern_summary[results[1].pattern] = 1

----------------------------------------------------------------------------
(* C11..C13, C20: the scan loop *)

\* the run has ended: normally, by sys.exit(1), or by an uncaught exception
Ended == pc \in {"done", "exit1", "crashed"}

\* C11 as claimed: when the fetch of a crate fails, the crate is reported
\* and the Effects already recorded for the crates before it are still
\* output or saved by the run.
C11_PriorResultsKept ==
    (pc = "exit1" /\ results # <<>>) =>
        /\ \E i \in DOMAIN log : log[i] = DownloadFailedMsg(CurCrate)
        /\ out # {}

\* C12 as claimed: a run in which the external tool of some crate exited
\* abnormally does not end as a normal run: it ends with a failure status
\* and reports the crate.
C12_ToolFailureReflected ==
    (Ended /\ tool_failed # <<>>) =>
        /\ pc # "done"
        /\ \E i \in DOMAIN log : log[i].crate = tool_failed[1]

RECURSIVE InCrateOrder(_, _, _)
\* the Effects rs[i..] can be assigned, in order, to positions k, k+1, .. of
\* the crate list without ever going back
InCrateOrder(rs, i, k) ==
    IF i > Len(rs) THEN TRUE
    ELSE LET later == {j \in k..Len(crates) : crates[j] = rs[i].crate}
         IN  /\ later # {}
             /\ InCrateOrder(rs, i + 1, CHOOSE j \in later : \A l \in later : j <= l)

\* the steps of Idle -> Downloading(crate) -> Scanning(crate) -> Idle, and
\* the ends of the run
LoopSteps ==
    { <<"idle", "downloading">>, <<"downloading", "scanning">>,
      <<"scanning", "idle">>, <<"idle", "report">>, <<"report", "done">>,
      <<"downloading", "exit1">>, <<"scanning", "crashed">>,
      <<"report", "crashed">> }

\* C13: crates are taken one at a time in input order through Idle ->
\* Downloading -> Scanning -> Idle; a crate is fetched only while it is being
\* downloaded, scanned only after that; every Effect recorded belongs to the
\* crate being scanned, the next crate starts only when nothing of the
\* current one is left to record, and in results the Effects of an earlier
\* crate precede those of a later one.
C13_Sequential ==
    /\ [](InCrateOrder(results, 1, 1) /\ (pc # "scanning" => pending = <<>>))
    /\ [][ /\ pc' # pc => <<pc, pc'>> \in LoopSteps
           /\ ci' # ci => /\ pc = "idle" /\ pc' = "downloading"
                          /\ ci' = ci + 1
                          /\ pending = <<>>
           /\ fetched' # fetched => /\ pc = "downloading"
                                    /\ fetched' = Append(fetched, crates[ci])
           /\ results' # results =>
                  /\ pc = "scanning" /\ ci' = ci
                  /\ Len(results') = Len(results) + 1
                  /\ SubSeq(results', 1, Len(results)) = results
                  /\ results'[Len(results')].crate = crates[ci]
         ]_vars

\* two crates scanned to the end, each with Effects in results
C13_Witness ==
    /\ pc = "done"
    /\ crates = <<"c1", "c2">>
    /\ Len(results) >= 2
    /\ results[1].crate = "c1"
    /\ results[Len(results)].crate = "c2"
    /\ fetched = <<"c1", "c2">>

\* C20: in a test run cargo download is invoked for no crate, whether or not
\* its directory exists; outside a test run the download step of a crate
\* invokes it exactly when the directory of that crate does not exist, and
\* nothing else invokes it.
C20_FetchOnlyWhenAbsent ==
    /\ [](test_run => fetched = <<>>)
    /\ [][ /\ (pc = "downloading" /\ pc' # "downloading") =>
                 IF ~test_run /\ crates[ci] \notin have_dir
                 THEN fetched' = Append(fetched, crates[ci])
                 ELSE fetched' = fetched
           /\ pc # "downloading" => fetched' = fetched
         ]_vars

\* a test run over two crates without directories has ended, nothing fetched
C20_Witness ==
    /\ pc = "done"
    /\ test_run
    /\ Len(crates) = 2
    /\ have_dir = {}
    /\ fetched = <<>>

----------------------------------------------------------------------------
(* C14: the order of the files of a crate *)

\* the names of S in increasing order, whatever order they are listed in
RECURSIVE InOrder(_)
InOrder(S) ==
    IF S = {} THEN <<>>
    ELSE LET least == CHOOSE x \in S : \A y \in S : x = y \/ StrLess(x, y)
         IN  <<least>> \o InOrder(S \ {least})

RECURSIVE EffectsBelow(_, _)
RECURSIVE EffectsOfDirs(_, _, _, _)
\* the Effects of the tree t from the directory path down: those of its
\* files in increasing order of name, then those of its directories in
\* increasing order of name
EffectsBelow(t, path) ==
    IF path \notin DOMAIN t THEN <<>>
    ELSE ScanFiles(path, InOrder(t[path].files), 1, of_interest)
            \o EffectsOfDirs(t, path, InOrder(t[path].dirs), 1)

EffectsOfDirs(t, path, ds, i) ==
    IF i > Len(ds) THEN <<>>
    ELSE EffectsBelow(t, Append(path, ds[i])) \o EffectsOfDirs(t, path, ds, i + 1)

IsPrefixOf(s, t) == Len(s) <= Len(t) /\ s = SubSeq(t, 1, Len(s))

\* C14: the sequence of Effects scan_crate produces is a function of the
\* source tree alone: whatever order each directory is listed in, the
\* Effects come file by file in increasing order of name, directory by
\* directory in increasing order of name.
C14_OrderIndependent ==
    pc \in {"walk", "walked"} =>
        /\ IsPrefixOf(emitted, EffectsBelow(fs, WalkRoot))
        /\ pc = "walked" => emitted = EffectsBelow(fs, WalkRoot)

\* a tree with three files in src and files in src/d, src/d/e and src/e
C14_Witness ==
    /\ pc = "walked"
    /\ DOMAIN fs = {WalkRoot, <<RUST_SRC, DirD>>, <<RUST_SRC, DirD, DirE>>,
                    <<RUST_SRC, DirE>>}
    /\ fs[WalkRoot].files = FileNames
    /\ fs[WalkRoot].dirs = {DirD, DirE}
    /\ fs[<<RUST_SRC, DirD>>].files = SubFileNames
    /\ fs[<<RUST_SRC, DirD, DirE>>].files # {}
    /\ fs[<<RUST_SRC, DirE>>].files = SubFileNames
    /\ Len(emitted) = 10

----------------------------------------------------------------------------
(* C15: the serialized record *)

\* C15: whatever the fields of an Effect hold, the record to_csv returns
\* splits at the separator into exactly as many fields as the header row,
\* and they are the fields crate, pattern, dir, file, fun in this order,
\* each with every `,` removed; the record holds no `,` but the separators'.
C15_RecordShape ==
    pc = "csv" =>
        LET fields == Split(csv, CommaSpace)
        IN  /\ Len(fields) = Len(Split(csv_header, CommaSpace))
            /\ Len(Split(csv, <<",">>)) = Len(fields)
            /\ fields = << RemoveChar(eff.crate, ","), RemoveChar(eff.pattern, ","),
                           RemoveChar(eff.dir, ","), RemoveChar(eff.file, ","),
                           RemoveChar(eff.fun, ",") >>
            /\ \A i \in DOMAIN fields : ~HasChar(fields[i], ",")

\* an Effect with the separator as crate, commas inside the pattern and
\* around the use line, and an empty file name
C15_Witness ==
    /\ pc = "csv"
    /\ eff.crate = CommaSpace
    /\ eff.pattern = <<"a", ",", "b">>
    /\ eff.file = <<>>
    /\ eff.fun = <<" ", ",", "a", ",">>
    /\ Len(Split(csv, CommaSpace)) = 5

----------------------------------------------------------------------------
(* C16: the summary report *)

\* the counts of a list of `key: count` lines never go up
CountsNonIncreasing(l) == \A i, j \in DOMAIN l : i < j => l[i][2] >= l[j][2]

\* C16: the pattern part of a report lists every pattern of PatternSummary
\* once, with its count (0 included), in non-increasing order of count; the
\* crate part lists exactly the crates with a count >= 1, in non-increasing
\* order of count; num_nonzero and num_zero count the crates with >= 1 and
\* with 0 Effects and add up to the number of distinct requested crates.
C16_SummaryReport ==
    pc = "done" =>
        /\ "patterns" \in out =>
              /\ Range(summary.patterns) =
                     {<<q, pattern_summary[q]>> : q \in DOMAIN pattern_summary}
              /\ Len(summary.patterns) = Cardinality(DOMAIN pattern_summary)
              /\ CountsNonIncreasing(summary.patterns)
        /\ "crates" \in out =>
              LET nonzero == {c \in DOMAIN crate_summary : crate_summary[c] >= 1}
                  zero == {c \in DOMAIN crate_summary : crate_summary[c] = 0}
              IN  /\ Range(summary.crates) = {<<c, crate_summary[c]>> : c \in nonzero}
                  /\ Len(summary.crates) = Cardinality(nonzero)
                  /\ CountsNonIncreasing(summary.crates)
                  /\ summary.num_nonzero = Cardinality(nonzero)
                  /\ summary.num_zero = Cardinality(zero)
                  /\ summary.num_nonzero + summary.num_zero = Cardinality(Range(crates))

\* a report of two crates, the second with more Effects than the first, and
\* of patterns that were not inserted in order of count, one of them at 0
C16_Witness ==
    /\ pc = "done"
    /\ out = {"results", "patterns", "crates"}
    /\ crates = <<"c1", "c2">>
    /\ crate_summary["c1"] = 1 /\ crate_summary["c2"] = 2
    /\ summary.crates = << <<"c2", 2>>, <<"c1", 1>> >>
    /\ pattern_summary[of_interest[1]] = 0
    /\ pattern_summary[of_interest[2]] > 0
    /\ summary.patterns[Len(summary.patterns)] = <<of_interest[1], 0>>

----------------------------------------------------------------------------
(* C17..C19: the call-trace backend *)

\* line i of the stream, as scan_crate_mirai sees it
LineAt(i) == Strip(lines[i])
IsCallLine(i) == Take(LineAt(i), 6) = CallPrefix
ParsedAt(i) == parse_mirai_call_line(Drop(LineAt(i), 6))

\* C17 as claimed: no trace line makes parse_mirai_call_line raise: a line
\* that does not decompose gives a warning and None, and the scan goes on.
C17_FailClosed == pc # "raised"

\* the call paths of the stream: its `Call Path:` markers
CallPaths == {i \in DOMAIN lines : LineAt(i) = CallPathLine}

\* C18 as claimed: when the stream has ended, scan_crate_mirai has yielded
\* one Effect for every call path of the stream.
C18_OneEffectPerPath == pc = "exhausted" => Len(emitted) = Cardinality(CallPaths)

\* the marker the line at belongs to: the last `Call Path:` before it, 0 if
\* there is none
PathStart(at) ==
    LET before == {i \in CallPaths : i < at}
    IN  IF before = {} THEN 0 ELSE CHOOSE i \in before : \A j \in before : j <= i

Least(S) == CHOOSE i \in S : \A j \in S : i <= j

\* the pair p consists of the edges of the first two lines of S, and was
\* made at the second
PairOfFirstTwo(p, S) ==
    /\ Cardinality(S) >= 2
    /\ LET first == Least(S)
           second == Least(S \ {first})
       IN  /\ ParsedAt(first).status = "ok" /\ p.callee = ParsedAt(first).edge
           /\ ParsedAt(second).status = "ok" /\ p.caller = ParsedAt(second).edge
           /\ p.at = second

\* C19 as claimed: the callee of every pair is the edge of the first `Call:`
\* line of its call path, the caller that of the second `Call:` line of the
\* same path, whether or not every `Call:` line parses.
C19_FirstTwoLines ==
    \A k \in DOMAIN pairs :
        PairOfFirstTwo(pairs[k],
                       {i \in (PathStart(pairs[k].at) + 1)..pairs[k].at : IsCallLine(i)})

\* C19 as amended: the callee of every pair is the edge of the first `Call:`
\* line of its call path that parses, the caller that of the second one that
\* parses; both lie after the same `Call Path:` marker.
C19_FirstTwoParsed ==
    \A k \in DOMAIN pairs :
        PairOfFirstTwo(pairs[k],
                       {i \in (PathStart(pairs[k].at) + 1)..pairs[k].at :
                           IsCallLine(i) /\ ParsedAt(i).status = "ok"})

\* a call path whose first `Call:` line does not parse and whose next two do
C19_Witness ==
    /\ pc = "exhausted"
    /\ Len(lines) = 4
    /\ LineAt(1) = CallPathLine
    /\ IsCallLine(2) /\ ParsedAt(2).status = "none"
    /\ IsCallLine(3) /\ ParsedAt(3).status = "ok"
    /\ IsCallLine(4) /\ ParsedAt(4).status = "ok"
    /\ ParsedAt(3).edge # ParsedAt(4).edge
    /\ pairs = <<[callee |-> ParsedAt(3).edge, caller |-> ParsedAt(4).edge, at |-> 4]>>

----------------------------------------------------------------------------
(* C21, C22, C24, C29: more of parse_use *)

\* the index of the first `,` or `}` of b that is outside every group, 0 if
\* there is none
RECURSIVE FirstStray(_, _, _)
FirstStray(b, i, depth) ==
    IF i > Len(b) THEN 0
    ELSE IF b[i] = "{" THEN FirstStray(b, i + 1, depth + 1)
    ELSE IF b[i] \in {",", "}"} /\ depth = 0 THEN i
    ELSE IF b[i] = "}" THEN FirstStray(b, i + 1, depth - 1)
    ELSE FirstStray(b, i + 1, depth)

\* C21: when the body has a `,` or a `}` outside every group, the warning
\* for that character is logged, nothing is raised, and the result is what
\* the text before that character yields before its end: the paths of that
\* text without the one still being accumulated, and nothing of the rest.
C21_StopsAtStray ==
    (pc # "call" /\ tree = NoTree /\ PrecondsHold(expr)
        /\ FirstStray(BodyOf(expr), 1, 0) > 0) =>
        LET b == BodyOf(expr)
            i == FirstStray(b, 1, 0)
            before == parse_use_core(SubSeq(b, 1, i - 1)).out
        IN  /\ ~ret.raised
            /\ ret.result = Sorted(SubSeq(before, 1, Len(before) - 1))
            /\ \E w \in DOMAIN ret.warn :
                   ret.warn[w] = (IF b[i] = "," THEN "unexpected ," ELSE "unexpected }")

\* `use a{b,a}}b;`: a::b was yielded, a::a was being accumulated
C21_Witness ==
    /\ pc = "returned"
    /\ BodyOf(expr) = <<"a", "{", "b", ",", "a", "}", "}", "b">>
    /\ PrecondsHold(expr)
    /\ ret.result = <<<<"a", "b">>>>
    /\ ret.warn = <<"unexpected }">>

\* C22: in a well-formed declaration, an item that is empty (a comma right
\* after `{`, right before `}`, or next to another comma) gives the path of
\* its group alone, and the path is kept: the result has one element for
\* every item, the empty ones included.
C22_EmptyItemKept ==
    (pc # "call" /\ tree # NoTree) =>
        /\ Len(ret.result) = Cardinality(Leaves(tree))
        /\ \A i \in Leaves(tree) :
               (i > 1 /\ Strip(tree.seg[i]) = <<>>) =>
                   \E k \in DOMAIN ret.result :
                       ret.result[k] = PathTo(tree, tree.parent[i])

\* a::{b,,a}: the second item is empty
C22_Witness ==
    /\ pc = "returned"
    /\ tree # NoTree
    /\ tree.n = 4
    /\ tree.parent = <<0, 1, 1, 1>>
    /\ tree.seg = << <<"a">>, <<"b">>, <<>>, <<"a">> >>
    /\ ret.result = << <<"a">>, <<"a", "a">>, <<"a", "b">> >>

\* the declaration is P{i1,...,in}: one group, closed at the end of the body
OneGroup(t) == \A i \in 2..t.n : t.parent[i] = 1

\* how many items of t are x once trimmed
ItemCount(t, x) == Cardinality({i \in 2..t.n : Strip(t.seg[i]) = x})

\* u is t with its items permuted and with white space put or taken away
\* next to `{`, `,` and `}`
SameUpToFormatting(t, u) ==
    /\ u.n = t.n /\ u.parent = t.parent
    /\ Strip(u.seg[1]) = Strip(t.seg[1])
    /\ \A i \in 2..t.n : ItemCount(u, Strip(t.seg[i])) = ItemCount(t, Strip(t.seg[i]))

\* C24: for a declaration with one group closed at the end of the body,
\* every declaration that differs from it only in the order of the items of
\* the group and in white space next to `{`, `,` and `}` gives the identical
\* list.
C24_FormatIndependent ==
    (pc # "call" /\ tree # NoTree /\ OneGroup(tree) /\ tree.n <= FormatNodes) =>
        \A s \in SegVectors(tree.n) :
            LET u == [n |-> tree.n, parent |-> tree.parent, seg |-> s]
            IN  SameUpToFormatting(tree, u) =>
                    parse_use(Decl(u)).result = ret.result

\* ` b {b, b ,a}`: white space around the prefix and an item, items not in
\* order, one of them twice up to white space
C24_Witness ==
    /\ pc = "returned"
    /\ tree # NoTree
    /\ tree.n = 4
    /\ OneGroup(tree)
    /\ tree.seg = << <<" ", "b", " ">>, <<"b">>, <<" ", "b", " ">>, <<"a">> >>
    /\ ret.result = << <<"b", "a">>, <<"b", "b">>, <<"b", "b">> >>

\* C29: no path parse_use returns holds a `{`, a `}` or a `,`, whatever the
\* body; so the use field of every Effect scan_use yields is free of the
\* field separator and sanitize_comma returns it unchanged.
C29_NoSeparatorInPath ==
    /\ \A i \in DOMAIN ret.result :
           \A c \in {"{", "}", ","} : ~HasChar(ret.result[i], c)
    /\ \A k \in DOMAIN emitted :
           /\ ~HasChar(emitted[k].fun, ",")
           /\ sanitize_comma(emitted[k].fun) = emitted[k].fun

\* a declaration with a group of two items has yielded two Effects
C29_Witness ==
    /\ pc = "exhausted"
    /\ HasChar(expr, "{") /\ HasChar(expr, ",") /\ HasChar(expr, "}")
    /\ Len(ret.result) = 2
    /\ Len(emitted) = 2
    /\ emitted[1].fun # emitted[2].fun

----------------------------------------------------------------------------
(* C23: the function identifier of an edge *)

\* C23 as claimed: the identifier parse_mirai_call_line returns for an
\* accepted line has no bracketed tag left in it.
C23_TagStripped ==
    /\ ~HasChar(edge1.fun, "[") /\ ~HasChar(edge1.fun, "]")
    /\ ~HasChar(edge2.fun, "[") /\ ~HasChar(edge2.fun, "]")

----------------------------------------------------------------------------
(* C25, C26: the statements scan_rs yields *)

\* C25: every string scan_rs yields ends with a newline, whatever the lines
\* of the file are.
C25_NewlineTerminated ==
    \A i \in DOMAIN yielded :
        yielded[i] # <<>> /\ yielded[i][Len(yielded[i])] = "\n"

\* the text of a file: its lines one after the other
RECURSIVE Text(_)
Text(f) == IF f = <<>> THEN <<>> ELSE Head(f) \o Text(Tail(f))

\* the lines of a text, each with its newline
RECURSIVE SplitLines(_)
SplitLines(s) ==
    IF s = <<>> THEN <<>>
    ELSE LET k == FindFrom(s, <<"\n">>, 1)
         IN  IF k = 0 THEN <<s>>
             ELSE <<Take(s, k)>> \o SplitLines(Drop(s, k))

\* a text with its comments deleted: `//` up to the newline, and `/*` up to
\* the next `*/` (up to the end when it is never closed)
RECURSIVE DeleteComments(_)
DeleteComments(s) ==
    IF s = <<>> THEN <<>>
    ELSE IF Take(s, 2) = <<"/", "/">>
    THEN LET k == FindFrom(s, <<"\n">>, 3)
         IN  IF k = 0 THEN <<>> ELSE DeleteComments(Drop(s, k - 1))
    ELSE IF Take(s, 2) = <<"/", "*">>
    THEN LET k == FindFrom(s, <<"*", "/">>, 3)
         IN  IF k = 0 THEN <<>> ELSE DeleteComments(Drop(s, k + 1))
    ELSE <<Head(s)>> \o DeleteComments(Tail(s))

\* statements compared up to the spaces left around a deleted comment
Unspaced(stmts) == [i \in DOMAIN stmts |-> RemoveChar(stmts[i], " ")]

\* C26: the statements yielded for a file are the statements yielded for the
\* same file with its comment text deleted; a semicolon inside a comment
\* ends no statement.
C26_CommentsIgnored ==
    pc = "rs_done" =>
        Unspaced(yielded) = Unspaced(scan_rs(SplitLines(DeleteComments(Text(fh)))))

----------------------------------------------------------------------------
(* C27: the verbosity of scripts/scan.py *)

\* C27: no number of -v flags makes main of scripts/scan.py raise: a count
\* above 4 is refused with the logged error and exit status 1, and a count
\* from 0 to 4 selects a log level.
C27_NoRaiseOnVerbosity ==
    script = "scripts/scan.py" =>
        /\ pc # "IndexError"
        /\ (pc # "args" /\ verbose > 4) => (pc = "exit1" /\ log = <<VerbosityMsg>>)

----------------------------------------------------------------------------
(* C28: the call graph is rendered after the analysis *)

\* C28: whenever view_callgraph_mirai starts dot on graph.dot, the process
\* run_mirai started has terminated.
C28_RenderAfterExit ==
    \A i \in DOMAIN rendered : rendered[i] = "exited"

====
